---- MODULE Spec2Model ----
(***************************************************************************)
(* Model of the Garmin health-data exporter (fetch_all_garmin_data.py and  *)
(* fetch_garmin_data.py): session-cached login, the retrying call wrapper, *)
(* the thread-pool fetch of one per-day category, and the aggregation run. *)
(***************************************************************************)
EXTENDS Integers, Sequences, FiniteSets, TLC

VARIABLES
    call,       \* one safe_call invocation: its inputs and what it returned
    session,    \* content of SESSION_FILE: "absent" or the stored token
    auth,       \* progress and effects of the current get_client call
    pool,       \* one fetch_history_parallel call: futures, accumulator, result
    main,       \* the controlling thread of fetch_all_data: position, data, files
    remote      \* the remote service: which responses it may give

vars == <<call, session, auth, pool, main, remote>>

----------------------------------------------------------------------------
(* Python values.  Every value is a record tagged by its type; a dict is a  *)
(* total function over the keys the program reads, Absent marking a key    *)
(* that is not in the dict.                                                *)

Keys == {"date", "totalSteps", "dailySleepDTO", "sleepLevels", "sleep_levels",
         "sleepTimeSeconds", "other"}

Absent == [t |-> "absent"]
PyNone == [t |-> "none"]
PyInt(n) == [t |-> "int", n |-> n]
PyStr(s) == [t |-> "str", s |-> s]
PyList(l) == [t |-> "list", l |-> l]
PyDict(d) == [t |-> "dict", d |-> d]

NoKeys == [k \in Keys |-> Absent]
EmptyDict == PyDict(NoKeys)
EmptyList == PyList(<<>>)

\* A list of activities, kept as the runs of consecutive activities it is
\* made of: the n activities the service lists from position from on.
PyActs(segs) == [t |-> "acts", segs |-> segs]

\* Python truth value of v, as tested by "if result:" and "if sleep and ...".
Truthy(v) ==
    CASE v.t = "none" -> FALSE
      [] v.t = "int"  -> v.n # 0
      [] v.t = "str"  -> Len(v.s) > 0
      [] v.t = "list" -> Len(v.l) > 0
      [] v.t = "dict" -> \E k \in DOMAIN v.d : v.d[k] # Absent
      [] v.t = "acts" -> \E i \in DOMAIN v.segs : v.segs[i].n > 0

IsDict(v) == v.t = "dict"

\* dict.get(key, dflt)
Get(v, key, dflt) == IF v.d[key] = Absent THEN dflt ELSE v.d[key]

\* v[key] = x on a dict
SetItem(v, key, x) == PyDict([v.d EXCEPT ![key] = x])

----------------------------------------------------------------------------
(* Dates and their ISO-8601 text.  A date is <<year, month, day>>; a       *)
(* string is the sequence of its character codes.                          *)

IsLeap(y) == (y % 4 = 0 /\ y % 100 # 0) \/ y % 400 = 0

DaysInMonth(y, m) ==
    IF m = 2 THEN (IF IsLeap(y) THEN 29 ELSE 28)
    ELSE IF m \in {4, 6, 9, 11} THEN 30 ELSE 31

\* date - timedelta(days=1)
PrevDay(dt) ==
    IF dt[3] > 1 THEN <<dt[1], dt[2], dt[3] - 1>>
    ELSE IF dt[2] > 1 THEN <<dt[1], dt[2] - 1, DaysInMonth(dt[1], dt[2] - 1)>>
    ELSE <<dt[1] - 1, 12, 31>>

\* date - timedelta(days=i)
RECURSIVE MinusDays(_, _)
MinusDays(dt, i) == IF i = 0 THEN dt ELSE MinusDays(PrevDay(dt), i - 1)

Digit(n) == 48 + n
Hyphen == 45

\* date.isoformat(): "YYYY-MM-DD", zero padded
isoformat(dt) ==
    << Digit(dt[1] \div 1000), Digit((dt[1] \div 100) % 10),
       Digit((dt[1] \div 10) % 10), Digit(dt[1] % 10), Hyphen,
       Digit(dt[2] \div 10), Digit(dt[2] % 10), Hyphen,
       Digit(dt[3] \div 10), Digit(dt[3] % 10) >>

\* The calendar date an ISO string denotes (used only to state properties).
fromisoformat(s) ==
    << (s[1] - 48) * 1000 + (s[2] - 48) * 100 + (s[3] - 48) * 10 + (s[4] - 48),
       (s[6] - 48) * 10 + (s[7] - 48),
       (s[9] - 48) * 10 + (s[10] - 48) >>

\* Chronological order on dates.
DateBefore(a, b) ==
    \/ a[1] < b[1]
    \/ a[1] = b[1] /\ a[2] < b[2]
    \/ a[1] = b[1] /\ a[2] = b[2] /\ a[3] < b[3]

\* Python's order on str: lexicographic by character code, a proper prefix first.
RECURSIVE StrLess(_, _)
StrLess(a, b) ==
    IF Len(b) = 0 THEN FALSE
    ELSE IF Len(a) = 0 THEN TRUE
    ELSE IF Head(a) # Head(b) THEN Head(a) < Head(b)
    ELSE StrLess(Tail(a), Tail(b))

----------------------------------------------------------------------------
(* safe_call: the retrying call wrapper.  outs[i] is what the wrapped       *)
(* operation does on its i-th invocation: Raise, or the value it returns.  *)

Raise == [t |-> "raise"]

SAFE_CALL_ATTEMPTS == 3
SAFE_CALL_LAST == 2

\* What safe_call hands back: the value, whether that value is the
\* operation's own result or the default, the number of invocations made,
\* the number of one-second sleeps, and whether a failure left the wrapper.
Returned(v, from, calls, sleeps) ==
    [value |-> v, from |-> from, calls |-> calls, sleeps |-> sleeps,
     raised |-> FALSE]

\* The body of "for attempt in range(n)": one invocation per iteration.
RECURSIVE safe_call_loop(_, _, _, _, _)
safe_call_loop(attempt, n, outs, default, sleeps) ==
    IF attempt >= n
    THEN Returned(PyNone, "none", attempt, sleeps)
    ELSE IF outs[attempt + 1] # Raise
         THEN Returned(outs[attempt + 1], "func", attempt + 1, sleeps)
         ELSE IF attempt < SAFE_CALL_LAST
              THEN safe_call_loop(attempt + 1, n, outs, default, sleeps + 1)
              ELSE Returned(default, "default", attempt + 1, sleeps)

\* Mutant: a falsy result is treated like a failure and retried.
RECURSIVE safe_call_retry_falsy(_, _, _, _)
safe_call_retry_falsy(attempt, outs, default, sleeps) ==
    IF attempt >= SAFE_CALL_ATTEMPTS
    THEN Returned(PyNone, "none", attempt, sleeps)
    ELSE IF outs[attempt + 1] # Raise /\ Truthy(outs[attempt + 1])
         THEN Returned(outs[attempt + 1], "func", attempt + 1, sleeps)
         ELSE IF attempt < SAFE_CALL_LAST
              THEN safe_call_retry_falsy(attempt + 1, outs, default, sleeps + 1)
              ELSE Returned(default, "default", attempt + 1, sleeps)

safe_call_falsy(outs, default) == safe_call_retry_falsy(0, outs, default, 0)

\* Mutant: the loop runs one iteration fewer and falls off its end.
safe_call_short(outs, default) ==
    safe_call_loop(0, SAFE_CALL_ATTEMPTS - 1, outs, default, 0)

safe_call(outs, default) ==
    safe_call_loop(0, SAFE_CALL_ATTEMPTS, outs, default, 0)

----------------------------------------------------------------------------
(* Values of the variables a specification does not use.                   *)

CallIdle == [st |-> "idle"]
AuthIdle == [pc |-> "idle"]
PoolIdle == [pc |-> "idle"]
MainIdle == [pc |-> "idle"]
RemoteIdle == [mode |-> "idle"]

----------------------------------------------------------------------------
(* SpecCall: safe_call applied to every behaviour of the wrapped operation *)
(* over three invocations and every default the program passes.            *)

SampleDict == PyDict([NoKeys EXCEPT !["other"] = PyInt(1)])
SampleList == PyList(<<PyInt(1)>>)

CallOutcomes == {Raise, PyNone, EmptyDict, EmptyList, SampleDict}
CallDefaults == {PyNone, EmptyDict, EmptyList}

CallInit ==
    /\ call \in [st : {"ready"},
                 outs : [1..SAFE_CALL_ATTEMPTS -> CallOutcomes],
                 default : CallDefaults]
    /\ session = "absent"
    /\ auth = AuthIdle
    /\ pool = PoolIdle
    /\ main = MainIdle
    /\ remote = RemoteIdle

CallReturn ==
    /\ call.st = "ready"
    /\ call' = [st |-> "done", outs |-> call.outs, default |-> call.default,
                ret |-> safe_call(call.outs, call.default)]
    /\ UNCHANGED <<session, auth, pool, main, remote>>

CallNext == CallReturn

SpecCall == CallInit /\ [][CallNext]_vars

AlwaysFails(outs) == \A i \in DOMAIN outs : outs[i] = Raise

\* The operation fails on invocations 1..k-1 and returns on invocation k.
SucceedsAt(outs, k) ==
    /\ k \in DOMAIN outs
    /\ outs[k] # Raise
    /\ \A j \in 1..(k - 1) : outs[j] = Raise

\* C2: an operation that fails on every invocation is invoked exactly three
\* times; safe_call then returns the supplied default and raises nothing.
C2_AlwaysFailingReturnsDefault ==
    (call.st = "done" /\ AlwaysFails(call.outs)) =>
        /\ call.ret.calls = 3
        /\ call.ret.from = "default"
        /\ call.ret.value = call.default
        /\ ~call.ret.raised

C2_Witness ==
    /\ call.st = "done"
    /\ AlwaysFails(call.outs)
    /\ call.default = EmptyDict
    /\ call.ret.value = EmptyDict

\* C3: an operation that fails on invocations 1..k-1 and returns on
\* invocation k is invoked exactly k times and safe_call returns that
\* result itself, also when it is None or empty, and not the default.
C3_FirstSuccessIsReturned ==
    \A k \in 1..3 :
        (call.st = "done" /\ SucceedsAt(call.outs, k)) =>
            /\ call.ret.calls = k
            /\ call.ret.from = "func"
            /\ call.ret.value = call.outs[k]
            /\ ~call.ret.raised

C3_Witness ==
    /\ call.st = "done"
    /\ SucceedsAt(call.outs, 3)
    /\ call.outs[3] = PyNone
    /\ call.default = EmptyList
    /\ call.ret.value = PyNone

----------------------------------------------------------------------------
(* fetch_day_data: one fetch task.  outs is what the endpoint of data_type *)
(* does on its successive invocations for the task's date.                 *)

DefaultOf(data_type) == IF data_type = "stats" THEN EmptyDict ELSE PyNone

DayTypes == {"stats", "sleep", "heart_rate", "hrv", "stress", "respiration",
             "spo2", "floors", "hydration", "intensity"}

\* What the task returns, the invocations it made, and whether every
\* attempt failed.  An exception raised while unwrapping a sleep response
\* is caught inside the task and turns into None.
DayResult(v, r) ==
    [value |-> v, calls |-> r.calls, exhausted |-> (r.from = "default")]

\* The "sleep" branch: unwrap dailySleepDTO and attach the sleep levels.
UnwrapSleep(sleep) ==
    IF ~Truthy(sleep) THEN PyNone
    ELSE IF ~IsDict(sleep) THEN PyNone
    ELSE LET dto == Get(sleep, "dailySleepDTO", PyNone)
         IN  IF ~Truthy(dto) THEN PyNone
             ELSE IF ~IsDict(dto) THEN PyNone
             ELSE SetItem(dto, "sleep_levels",
                          Get(sleep, "sleepLevels", EmptyList))

fetch_day_data(outs, data_type) ==
    IF data_type \notin DayTypes
    THEN [value |-> PyNone, calls |-> 0, exhausted |-> FALSE]
    ELSE LET r == safe_call(outs, DefaultOf(data_type))
         IN  IF data_type = "sleep"
             THEN DayResult(UnwrapSleep(r.value), r)
             ELSE DayResult(r.value, r)

----------------------------------------------------------------------------
(* fetch_history_parallel: the thread pool of one category.                *)

MAX_WORKERS == 10

\* The list after x[key] = v on the object that the entries at the
\* positions same are: a dict is changed in place, so every entry that is
\* this object shows the new item.
SetItemInPlace(list, same, key, v) ==
    [j \in DOMAIN list |-> IF j \in same THEN SetItem(list[j], key, v) ELSE list[j]]

\* Mutant: the tagging is not guarded, so a TypeError leaves the loop.
CollectedUnguarded(results, same, result, date_str) ==
    IF ~Truthy(result) THEN [results |-> results, raised |-> FALSE]
    ELSE IF result.t # "dict" THEN [results |-> results, raised |-> TRUE]
    ELSE [results |-> Append(SetItemInPlace(results, same, "date", PyStr(date_str)),
                             SetItem(result, "date", PyStr(date_str))),
          raised |-> FALSE]

\* Mutant: an unsynchronised append whose write lands on the slot of the
\* entry appended last, which is lost.
CollectedRacy(results, same, result, date_str) ==
    IF ~Truthy(result) THEN [results |-> results, raised |-> FALSE]
    ELSE IF ~IsDict(result) THEN [results |-> results, raised |-> FALSE]
    ELSE [results |->
             IF results = <<>>
             THEN <<SetItem(result, "date", PyStr(date_str))>>
             ELSE [results EXCEPT ![Len(results)] =
                      SetItem(result, "date", PyStr(date_str))],
          raised |-> FALSE]

\* Mutant: the test is "result is not None", so an empty dict is kept.
CollectedKeepsEmpty(results, same, result, date_str) ==
    IF result = PyNone THEN [results |-> results, raised |-> FALSE]
    ELSE IF result.t # "dict" THEN [results |-> results, raised |-> FALSE]
    ELSE [results |-> Append(SetItemInPlace(results, same, "date", PyStr(date_str)),
                             SetItem(result, "date", PyStr(date_str))),
          raised |-> FALSE]

\* result["date"] = date_str; results.append(result), inside try/except:
\* a truthy result that is no dict cannot be tagged (TypeError) and is
\* dropped by "except Exception: pass".  The date is written into the
\* object the task returned, and that object is appended: same holds the
\* positions of results at which this very object already stands (none
\* when every task returns an object of its own).
Collected(results, same, result, date_str) ==
    IF ~Truthy(result) THEN [results |-> results, raised |-> FALSE]
    ELSE IF ~IsDict(result) THEN [results |-> results, raised |-> FALSE]
    ELSE [results |-> Append(SetItemInPlace(results, same, "date", PyStr(date_str)),
                             SetItem(result, "date", PyStr(date_str))),
          raised |-> FALSE]

\* The sort key: x.get("date", "")
DateKey(x) == Get(x, "date", PyStr(<<>>)).s

\* Insert e behind every element whose key is not smaller: a stable
\* descending order, as list.sort(key=..., reverse=True) gives.
RECURSIVE InsertDesc(_, _)
InsertDesc(e, sorted) ==
    IF sorted = <<>> THEN <<e>>
    ELSE IF StrLess(DateKey(Head(sorted)), DateKey(e))
         THEN <<e>> \o sorted
         ELSE <<Head(sorted)>> \o InsertDesc(e, Tail(sorted))

RECURSIVE SortFrom(_, _)
SortFrom(rest, sorted) ==
    IF rest = <<>> THEN sorted
    ELSE SortFrom(Tail(rest), InsertDesc(Head(rest), sorted))

\* Mutant: the accumulator is returned in the order of completion.
sort_skipped(results) == results

\* Mutant: reverse=True is missing, the order is ascending.
RECURSIVE SortAscFrom(_, _)
SortAscFrom(rest, sorted) ==
    IF rest = <<>> THEN sorted
    ELSE LET e == Head(rest)
             below == SelectSeq(sorted, LAMBDA x : ~StrLess(DateKey(e), DateKey(x)))
             above == SelectSeq(sorted, LAMBDA x : StrLess(DateKey(e), DateKey(x)))
         IN  SortAscFrom(Tail(rest), below \o <<e>> \o above)

sort_ascending(results) == SortAscFrom(results, <<>>)

\* results.sort(key=lambda x: x.get("date", ""), reverse=True)
sort_by_date_desc(results) == SortFrom(results, <<>>)

NewPool(dates, data_type) ==
    [pc |-> "submit", data_type |-> data_type, dates |-> dates,
     tasks |-> [i \in 1..Len(dates) |-> [st |-> "new"]],
     yielded |-> {}, results |-> <<>>]

TaskIds == IF pool.pc \in {"submit", "returned", "raised"}
           THEN DOMAIN pool.tasks ELSE {}

\* The tasks a worker thread is executing: in safe_call, or past it with
\* the value fetch_day_data is about to return.
Running == {i \in TaskIds : pool.tasks[i].st \in {"running", "returning"}}

AllSubmitted == \A i \in TaskIds : pool.tasks[i].st # "new"

\* The sequences of responses the endpoint may give to one task.
Responses(data_type) ==
    IF data_type = "sleep"
    THEN {PyNone, SampleList,
          PyDict([NoKeys EXCEPT !["other"] = PyInt(1)]),
          PyDict([NoKeys EXCEPT !["dailySleepDTO"] = SampleList]),
          PyDict([NoKeys EXCEPT
                    !["dailySleepDTO"] =
                        PyDict([NoKeys EXCEPT !["sleepTimeSeconds"] = PyInt(1)]),
                    !["sleepLevels"] = SampleList])}
    ELSE {PyNone, EmptyDict, SampleList, SampleDict}

\* An endpoint that fails on its first k invocations and answers v after.
FailThen(k, v) == [i \in 1..SAFE_CALL_ATTEMPTS |-> IF i <= k THEN Raise ELSE v]

\* Responses of the profiles of the remote service used for whole runs.
StatsFull == PyDict([NoKeys EXCEPT !["totalSteps"] = PyInt(5000),
                                   !["other"] = PyInt(1)])
SleepOk ==
    PyDict([NoKeys EXCEPT
              !["dailySleepDTO"] =
                  PyDict([NoKeys EXCEPT !["sleepTimeSeconds"] = PyInt(28800)]),
              !["sleepLevels"] = SampleList])
SleepNull ==
    PyDict([NoKeys EXCEPT
              !["dailySleepDTO"] =
                  PyDict([NoKeys EXCEPT !["sleepTimeSeconds"] = PyNone,
                                        !["other"] = PyInt(1)])])

GoodDay(data_type) ==
    IF data_type = "stats" THEN StatsFull
    ELSE IF data_type = "sleep" THEN SleepOk ELSE SampleDict

Profiles == {"healthy", "flaky", "down", "nocontent", "emptyvalues",
             "badday", "nosteps", "nullsleep"}

\* What a per-day endpoint does for one date under the remote's profile.
DayOuts(data_type, date_str) ==
    CASE remote.profile = "down" -> FailThen(SAFE_CALL_ATTEMPTS, PyNone)
      [] remote.profile = "flaky" -> FailThen(2, GoodDay(data_type))
      [] remote.profile = "nocontent" -> FailThen(0, PyNone)
      [] remote.profile = "emptyvalues" -> FailThen(0, EmptyDict)
      [] remote.profile = "badday" /\ date_str = remote.bad_date ->
            FailThen(SAFE_CALL_ATTEMPTS, PyNone)
      [] remote.profile = "nosteps" /\ data_type = "stats" ->
            FailThen(0, SampleDict)
      [] remote.profile = "nullsleep" /\ data_type = "sleep" ->
            FailThen(0, SleepNull)
      [] OTHER -> FailThen(0, GoodDay(data_type))

\* The client decodes every response anew: each answer is an object of its
\* own.
OutsFor(data_type, date_str) ==
    IF remote.mode = "any"
    THEN {FailThen(k, v) : k \in 0..SAFE_CALL_ATTEMPTS,
                           v \in Responses(data_type)}
    ELSE {DayOuts(data_type, date_str)}

\* The remote service after n more requests.  The unconstrained service of
\* SpecFetch keeps no count.
Counted(n) ==
    IF remote.mode = "any" THEN remote ELSE [remote EXCEPT !.calls = @ + n]

\* executor.submit(fetch_day_data, client, date_str, data_type), in the
\* order of dates.
Submit(i) ==
    /\ pool.pc = "submit"
    /\ i \in TaskIds
    /\ pool.tasks[i].st = "new"
    /\ \A j \in 1..(i - 1) : pool.tasks[j].st # "new"
    /\ pool' = [pool EXCEPT !.tasks[i] = [st |-> "queued"]]
    /\ UNCHANGED <<call, session, auth, main, remote>>

\* Mutant: the executor starts a thread for every task.
WorkerAlwaysFree == TRUE

\* ThreadPoolExecutor(max_workers=MAX_WORKERS): fewer than MAX_WORKERS
\* tasks are executing.
WorkerFree == Cardinality(Running) < MAX_WORKERS

\* A free worker takes the oldest queued task and sleeps REQUEST_DELAY.
TaskStart(i) ==
    /\ i \in TaskIds
    /\ pool.pc = "submit"
    /\ pool.tasks[i].st = "queued"
    /\ \A j \in 1..(i - 1) : pool.tasks[j].st # "queued"
    /\ WorkerFree
    /\ pool' = [pool EXCEPT !.tasks[i] = [st |-> "running", attempt |-> 0]]
    /\ UNCHANGED <<call, session, auth, main, remote>>

\* The worker's next invocation of the endpoint inside safe_call, the
\* attempt-th having failed before: a failure that is not the last one
\* leaves the worker asleep before its next attempt, every other outcome
\* ends safe_call and gives fetch_day_data its return value.  Unwrapping a
\* sleep answer writes "sleep_levels" into the answer's dailySleepDTO.
\* The task's value is the object fetch_day_data returns, as it is now;
\* returned keeps what that object held at the return.
TaskRequest(i) ==
    /\ i \in TaskIds
    /\ pool.pc = "submit"
    /\ pool.tasks[i].st = "running"
    /\ \E outs \in OutsFor(pool.data_type, pool.dates[i]) :
          LET attempt == pool.tasks[i].attempt
              out == outs[attempt + 1]
              seen == [k \in 1..SAFE_CALL_ATTEMPTS |->
                          IF k <= attempt THEN Raise ELSE out]
              r == fetch_day_data(seen, pool.data_type)
              task == [st |-> "returning", value |-> r.value,
                       returned |-> r.value, exhausted |-> r.exhausted]
          IN  IF out = Raise /\ attempt < SAFE_CALL_LAST
              THEN /\ pool' = [pool EXCEPT !.tasks[i].attempt = @ + 1]
                   /\ remote' = Counted(1)
              ELSE /\ pool' = [pool EXCEPT !.tasks[i] = task]
                   /\ remote' = Counted(1)
    /\ UNCHANGED <<call, session, auth, main>>

\* Mutant: a task that exhausted its retries cancels the tasks still queued.
TaskFinishCancels(i) ==
    /\ i \in TaskIds
    /\ pool.pc = "submit"
    /\ pool.tasks[i].st = "returning"
    /\ pool' = [pool EXCEPT !.tasks =
                   [j \in DOMAIN pool.tasks |->
                      IF j = i
                      THEN [pool.tasks[i] EXCEPT !.st = "done"]
                      ELSE IF pool.tasks[i].exhausted /\ pool.tasks[j].st = "queued"
                           THEN [st |-> "cancelled"]
                           ELSE pool.tasks[j]]]
    /\ UNCHANGED <<call, session, auth, main, remote>>

\* fetch_day_data returns and the worker sets the future's result.
TaskFinish(i) ==
    /\ i \in TaskIds
    /\ pool.pc = "submit"
    /\ pool.tasks[i].st = "returning"
    /\ pool' = [pool EXCEPT !.tasks[i].st = "done"]
    /\ UNCHANGED <<call, session, auth, main, remote>>

\* One iteration of "for future in as_completed(futures)".  The future's
\* result is an object no other future holds and that is not yet in
\* results.  The date is written into that object, so the value the future
\* holds shows the date as well.
Collect(i) ==
    /\ pool.pc = "submit"
    /\ AllSubmitted
    /\ i \in TaskIds \ pool.yielded
    /\ pool.tasks[i].st = "done"
    /\ LET result == pool.tasks[i].value
           c == Collected(pool.results, {}, result, pool.dates[i])
           tagged == Len(c.results) > Len(pool.results)
       IN  pool' = [pool EXCEPT
                      !.yielded = @ \cup {i},
                      !.results = c.results,
                      !.pc = IF c.raised THEN "raised" ELSE @,
                      !.tasks[i].value =
                         IF tagged THEN c.results[Len(c.results)] ELSE @]
    /\ UNCHANGED <<call, session, auth, main, remote>>

\* Mutant: the executor is shut down without waiting and the futures are
\* not iterated to their end.
FetchReturnEarly ==
    /\ pool.pc = "submit"
    /\ AllSubmitted
    /\ pool' = [pool EXCEPT !.pc = "returned",
                            !.results = sort_by_date_desc(pool.results)]
    /\ UNCHANGED <<call, session, auth, main, remote>>

\* as_completed is exhausted, the with block waits for the workers, the
\* accumulator is sorted and returned.
FetchReturn ==
    /\ pool.pc = "submit"
    /\ AllSubmitted
    /\ pool.yielded = TaskIds
    /\ \A i \in TaskIds : pool.tasks[i].st = "done"
    /\ pool' = [pool EXCEPT !.pc = "returned",
                            !.results = sort_by_date_desc(pool.results)]
    /\ UNCHANGED <<call, session, auth, main, remote>>

----------------------------------------------------------------------------
(* SpecFetch: fetch_history_parallel on every sequence of pairwise         *)
(* distinct dates of a small calendar, for a category of each kind.        *)

MaxDates == 3

Calendar == {<<2023, 12, 31>>, <<2024, 2, 29>>, <<2024, 10, 1>>}

DateStrings == {isoformat(dt) : dt \in Calendar}

Distinct(seq) == \A i, j \in DOMAIN seq : i # j => seq[i] # seq[j]

DateSeqs ==
    UNION {{q \in [1..n -> DateStrings] : Distinct(q)} : n \in 0..MaxDates}

FetchTypes == {"stats", "sleep"}

FetchInit ==
    /\ call = CallIdle
    /\ session = "absent"
    /\ auth = AuthIdle
    /\ main = MainIdle
    /\ \E dates \in DateSeqs, data_type \in FetchTypes :
          /\ pool = NewPool(dates, data_type)
          /\ remote = [mode |-> "any"]

FetchNext ==
    \/ \E i \in TaskIds : Submit(i)
    \/ \E i \in TaskIds : TaskStart(i)
    \/ \E i \in TaskIds : TaskRequest(i)
    \/ \E i \in TaskIds : TaskFinish(i)
    \/ \E i \in TaskIds : Collect(i)
    \/ FetchReturn

SpecFetch == FetchInit /\ [][FetchNext]_vars

Returned_ == pool.pc = "returned"

\* The calendar date of the i-th entry of the returned list.
EntryDate(i) == fromisoformat(DateKey(pool.results[i]))

ReturnedDates == {DateKey(pool.results[i]) : i \in DOMAIN pool.results}

\* C1: the returned list holds at most one entry per input date and its
\* entries are in non-increasing calendar order of their dates, whatever the
\* order of the input dates and of the workers' completion.
C1_OnePerDateNewestFirst ==
    Returned_ =>
        /\ \A i \in DOMAIN pool.dates :
              Cardinality({j \in DOMAIN pool.results :
                              DateKey(pool.results[j]) = pool.dates[i]}) <= 1
        /\ \A i, j \in DOMAIN pool.results :
              i < j => ~DateBefore(EntryDate(i), EntryDate(j))

\* Three entries are returned although the input dates came oldest first.
C1_Witness ==
    /\ Returned_
    /\ Len(pool.results) = 3
    /\ DateBefore(fromisoformat(pool.dates[1]), fromisoformat(pool.dates[2]))
    /\ DateBefore(fromisoformat(pool.dates[2]), fromisoformat(pool.dates[3]))

NonEmptyDict(v) == Truthy(v) /\ IsDict(v)

\* C7 as stated: the returned dates are exactly the input dates whose task
\* produced a non-empty (truthy) result; a date whose call failed on every
\* attempt is not among them; every entry carries the date of the task
\* that produced it.
C7_ReturnedDatesAreNonEmptyResults ==
    Returned_ =>
        /\ ReturnedDates =
              {pool.dates[i] : i \in {j \in DOMAIN pool.dates :
                                         Truthy(pool.tasks[j].returned)}}
        /\ \A i \in DOMAIN pool.dates :
              pool.tasks[i].exhausted => pool.dates[i] \notin ReturnedDates
        /\ \A e \in DOMAIN pool.results :
              \E i \in DOMAIN pool.dates :
                 /\ DateKey(pool.results[e]) = pool.dates[i]
                 /\ pool.results[e] = pool.tasks[i].value

\* C7 amended: the returned dates are exactly the input dates whose task
\* produced a non-empty dict; a date whose call failed on every attempt,
\* gave an empty value or gave a value that is no dict is not among them;
\* every entry is the object its task returned, holding what the task
\* returned and that task's date.
C7_ReturnedDatesAreNonEmptyDicts ==
    Returned_ =>
        /\ ReturnedDates =
              {pool.dates[i] : i \in {j \in DOMAIN pool.dates :
                                         NonEmptyDict(pool.tasks[j].returned)}}
        /\ \A i \in DOMAIN pool.dates :
              (\/ pool.tasks[i].exhausted
               \/ ~NonEmptyDict(pool.tasks[i].returned)) =>
                 pool.dates[i] \notin ReturnedDates
        /\ \A e \in DOMAIN pool.results :
              \E i \in DOMAIN pool.dates :
                 /\ DateKey(pool.results[e]) = pool.dates[i]
                 /\ NonEmptyDict(pool.tasks[i].returned)
                 /\ pool.results[e] = pool.tasks[i].value
                 /\ pool.results[e] =
                       SetItem(pool.tasks[i].returned, "date",
                               PyStr(pool.dates[i]))

\* Three days of "stats", newest first; the middle day fails on every
\* attempt, the other two succeed: the result is [newest, oldest].
C7_Witness ==
    /\ Returned_
    /\ pool.data_type = "stats"
    /\ pool.dates = <<isoformat(<<2024, 10, 1>>), isoformat(<<2024, 2, 29>>),
                      isoformat(<<2023, 12, 31>>)>>
    /\ pool.tasks[2].exhausted
    /\ NonEmptyDict(pool.tasks[1].returned)
    /\ NonEmptyDict(pool.tasks[3].returned)
    /\ Len(pool.results) = 2
    /\ DateKey(pool.results[1]) = pool.dates[1]
    /\ DateKey(pool.results[2]) = pool.dates[3]

\* C8: no combination of task outcomes makes fetch_history_parallel raise,
\* and until it has returned it can always take a further step.
C8_BatchNeverFails ==
    /\ pool.pc # "raised"
    /\ pool.pc = "submit" => ENABLED FetchNext

\* It returned the empty list after one task exhausted its retries and
\* another produced a result that could not be tagged.
C8_Witness ==
    /\ Returned_
    /\ pool.results = <<>>
    /\ \E i, j \in DOMAIN pool.dates :
          /\ pool.tasks[i].exhausted
          /\ pool.tasks[j].value = SampleList

----------------------------------------------------------------------------
(* get_client: session-cached login.  Both scripts define it with the same *)
(* control flow.  Each login call either succeeds or raises; which, the    *)
(* remote service decides.                                                 *)

StoredToken == "stored"     \* the token found in SESSION_FILE at start
FreshToken == "fresh"       \* the token a credential login of this run yields

NewAuth == [pc |-> "start", restores |-> 0, logins |-> 0, dumps |-> 0,
            restore |-> "none", login |-> "none"]

\* Mutant: the failure of the credential login is swallowed and the client
\* is returned unauthenticated.
LoginFailureSwallowed(a) == [a EXCEPT !.pc = "returned"]

\* How a failure of the credential login leaves get_client.
LoginFailure(a) == [a EXCEPT !.pc = "raised"]

\* Mutant: the token is dumped after the session login as well.
AfterRestoreDumps(a) == [a EXCEPT !.pc = "dump"]

\* Mutant: the "return client" after the session login is missing.
AfterRestoreFallsThrough(a) == [a EXCEPT !.pc = "login"]

\* Where get_client continues after the session login succeeded.
AfterRestore(a) == [a EXCEPT !.pc = "returned"]

\* Mutant: the token of the fresh login is not saved.
AfterLoginNoDump(a) == [a EXCEPT !.pc = "returned"]

\* Where get_client continues after the credential login succeeded.
AfterLogin(a) == [a EXCEPT !.pc = "dump"]

\* Mutant: the session login is tried again before the credential login.
AfterRestoreFailureRetry(a) ==
    [a EXCEPT !.pc = IF a.restores < 2 THEN "restore" ELSE "login"]

\* The exception handler of the session login.
AfterRestoreFailure(a) == [a EXCEPT !.pc = "login"]

\* client = Garmin(EMAIL, PASSWORD); if SESSION_FILE.exists():
AuthStart ==
    /\ auth.pc = "start"
    /\ auth' = [auth EXCEPT !.pc = IF session # "absent" THEN "restore"
                                   ELSE "login"]
    /\ UNCHANGED <<call, session, pool, main, remote>>

\* try: client.login(str(SESSION_FILE)); return client / except Exception
AuthRestore ==
    /\ auth.pc = "restore"
    /\ \E ok \in BOOLEAN :
          LET a == [auth EXCEPT !.restores = @ + 1,
                                !.restore = IF ok THEN "ok" ELSE "failed"]
          IN  auth' = IF ok THEN AfterRestore(a) ELSE AfterRestoreFailure(a)
    /\ UNCHANGED <<call, session, pool, main, remote>>

\* client.login(): a failure propagates out of get_client and of its caller
AuthLogin ==
    /\ auth.pc = "login"
    /\ \E ok \in BOOLEAN :
          LET a == [auth EXCEPT !.logins = @ + 1,
                                !.login = IF ok THEN "ok" ELSE "failed"]
          IN  /\ auth' = IF ok THEN AfterLogin(a) ELSE LoginFailure(a)
              /\ main' = IF auth'.pc = "raised"
                         THEN [main EXCEPT !.pc = "raised"] ELSE main
    /\ UNCHANGED <<call, session, pool, remote>>

\* client.garth.dump(str(SESSION_FILE)); return client
AuthDump ==
    /\ auth.pc = "dump"
    /\ session' = FreshToken
    /\ auth' = [auth EXCEPT !.pc = "returned", !.dumps = @ + 1]
    /\ UNCHANGED <<call, pool, main, remote>>

----------------------------------------------------------------------------
(* fetch_all_data: the aggregation run of the controlling thread.          *)

\* The single-shot and date-range calls before the per-day categories ...
SINGLE_A ==
    << [key |-> "user_profile", default |-> EmptyDict],
       [key |-> "devices", default |-> EmptyList],
       [key |-> "daily_steps_bulk", default |-> EmptyList],
       [key |-> "body_battery_bulk", default |-> EmptyList],
       [key |-> "body_composition", default |-> EmptyDict],
       [key |-> "weight_history", default |-> EmptyList],
       [key |-> "blood_pressure", default |-> EmptyList],
       [key |-> "hill_score", default |-> EmptyDict],
       [key |-> "endurance_score", default |-> EmptyDict] >>

\* ... and those after the activities.
SINGLE_B ==
    << [key |-> "activity_types", default |-> EmptyList],
       [key |-> "training_status", default |-> EmptyDict],
       [key |-> "training_readiness", default |-> EmptyDict],
       [key |-> "max_metrics", default |-> EmptyDict],
       [key |-> "fitness_age", default |-> EmptyDict],
       [key |-> "race_predictions", default |-> EmptyDict],
       [key |-> "personal_records", default |-> EmptyDict],
       [key |-> "goals", default |-> EmptyDict],
       [key |-> "earned_badges", default |-> EmptyList],
       [key |-> "badge_challenges", default |-> EmptyList],
       [key |-> "gear", default |-> EmptyList],
       [key |-> "workouts", default |-> EmptyList] >>

\* The per-day categories, in the order they are fetched.
CATEGORIES ==
    << [key |-> "daily_stats", data_type |-> "stats"],
       [key |-> "sleep_history", data_type |-> "sleep"],
       [key |-> "heart_rate_history", data_type |-> "heart_rate"],
       [key |-> "hrv_history", data_type |-> "hrv"],
       [key |-> "stress_history", data_type |-> "stress"],
       [key |-> "respiration_history", data_type |-> "respiration"],
       [key |-> "spo2_history", data_type |-> "spo2"] >>

DataKeys ==
    {"fetched_at", "date_range", "activities"}
    \cup {SINGLE_A[i].key : i \in DOMAIN SINGLE_A}
    \cup {SINGLE_B[i].key : i \in DOMAIN SINGLE_B}
    \cup {CATEGORIES[i].key : i \in DOMAIN CATEGORIES}

BATCH_SIZE == 1000

\* len(v) of a list of activities
RECURSIVE SegsSize(_)
SegsSize(segs) == IF segs = <<>> THEN 0 ELSE Head(segs).n + SegsSize(Tail(segs))

Size(v) == IF v.t = "acts" THEN SegsSize(v.segs) ELSE Len(v.l)

\* Mutant: the batch is put in front of the activities collected so far.
ExtendFront(all, batch) == PyActs(batch.segs \o all.segs)

\* all_activities.extend(batch)
Extend(all, batch) == PyActs(all.segs \o batch.segs)

\* What a single-shot or date-range endpoint does under the remote's profile.
GoodFor(default) == IF default = EmptyDict THEN SampleDict ELSE SampleList

SingleOuts(default) ==
    CASE remote.profile = "down" -> FailThen(SAFE_CALL_ATTEMPTS, PyNone)
      [] remote.profile = "flaky" -> FailThen(2, GoodFor(default))
      [] remote.profile = "nocontent" -> FailThen(0, PyNone)
      [] remote.profile = "emptyvalues" -> FailThen(0, default)
      [] OTHER -> FailThen(0, GoodFor(default))

\* The number of activities the account holds under the remote's profile.
ActivityCount ==
    CASE remote.profile = "healthy" -> BATCH_SIZE + 3
      [] remote.profile = "flaky" -> 2 * BATCH_SIZE
      [] remote.profile = "emptyvalues" -> 0
      [] OTHER -> 3

\* get_activities(offset, limit) when it answers.
Batch(offset, limit) ==
    IF offset >= ActivityCount THEN EmptyList
    ELSE PyActs(<<[from |-> offset,
                   n |-> IF ActivityCount - offset < limit
                         THEN ActivityCount - offset ELSE limit]>>)

ActivitiesOuts(offset, limit) ==
    CASE remote.profile = "down" -> FailThen(SAFE_CALL_ATTEMPTS, PyNone)
      [] remote.profile = "flaky" -> FailThen(2, Batch(offset, limit))
      [] remote.profile = "nocontent" -> FailThen(0, PyNone)
      [] OTHER -> FailThen(0, Batch(offset, limit))

\* Mutant: range(days_history), which leaves out the oldest day and gives
\* no date at all for days_history = 0.
DatesOfShort(today, days_history) ==
    [i \in 1..days_history |-> isoformat(MinusDays(today, i - 1))]

\* dates = [(today - timedelta(days=i)).isoformat()
\*          for i in range(days_history + 1)]
DatesOf(today, days_history) ==
    [i \in 1..(days_history + 1) |-> isoformat(MinusDays(today, i - 1))]

NewMain(today, days_history) ==
    [pc |-> "auth", step |-> 0, today |-> today, days_history |-> days_history,
     dates |-> <<>>, data |-> [k \in DataKeys |-> Absent], files |-> {},
     all_activities |-> PyActs(<<>>), offset |-> 0, error |-> "none",
     run |-> 1, previous |-> <<>>]

\* Lines 125-141: the date list and the head of the record.
Prepare ==
    /\ main.pc = "auth"
    /\ auth.pc = "returned"
    /\ main' = [main EXCEPT
                  !.pc = "single_a", !.step = 1,
                  !.dates = DatesOf(main.today, main.days_history),
                  !.data = [@ EXCEPT
                     !["fetched_at"] = PyInt(remote.clock),
                     !["date_range"] =
                        [t |-> "range",
                         start |-> isoformat(MinusDays(main.today,
                                                       main.days_history)),
                         end |-> isoformat(main.today),
                         days |-> main.days_history]]]
    /\ UNCHANGED <<call, session, auth, pool, remote>>

\* data[key] = safe_call(client.get_..., default=...), for the entry of
\* table the thread stands at; after the last one it goes on at next.
SingleCall(table, here, next) ==
    /\ main.pc = here
    /\ LET e == table[main.step]
           r == safe_call(SingleOuts(e.default), e.default)
       IN  /\ main' = [main EXCEPT
                         !.data[e.key] = r.value,
                         !.step = IF main.step = Len(table) THEN 1 ELSE @ + 1,
                         !.pc = IF main.step = Len(table) THEN next ELSE @]
           /\ remote' = Counted(r.calls)
    /\ UNCHANGED <<call, session, auth, pool>>

SingleCallA == SingleCall(SINGLE_A, "single_a", "fetch")

SingleCallB == SingleCall(SINGLE_B, "single_b", "save_full")

\* data[key] = fetch_history_parallel(client, dates, data_type): entry
BeginFetch ==
    /\ main.pc = "fetch"
    /\ pool.pc = "idle"
    /\ pool' = NewPool(main.dates, CATEGORIES[main.step].data_type)
    /\ UNCHANGED <<call, session, auth, main, remote>>

\* ... and return: the sorted list is stored under the category's key.
EndFetch ==
    /\ main.pc = "fetch"
    /\ pool.pc \in {"returned", "raised"}
    /\ pool' = PoolIdle
    /\ main' = IF pool.pc = "raised"
               THEN [main EXCEPT !.pc = "raised", !.error = "fetch"]
               ELSE [main EXCEPT
                       !.data[CATEGORIES[main.step].key] = PyList(pool.results),
                       !.step = IF main.step = Len(CATEGORIES) THEN 1 ELSE @ + 1,
                       !.pc = IF main.step = Len(CATEGORIES)
                              THEN "activities" ELSE @]
    /\ UNCHANGED <<call, session, auth, remote>>

\* One iteration of the "while True" loop over the activity batches.
FetchActivities ==
    /\ main.pc = "activities"
    /\ LET r == safe_call(ActivitiesOuts(main.offset, BATCH_SIZE), EmptyList)
           batch == r.value
           all == IF Truthy(batch) THEN Extend(main.all_activities, batch)
                  ELSE main.all_activities
           last == ~Truthy(batch) \/ Size(batch) < BATCH_SIZE
       IN  /\ main' = [main EXCEPT
                         !.all_activities = all,
                         !.offset = IF Truthy(batch) THEN @ + Size(batch) ELSE @,
                         !.data["activities"] = IF last THEN all ELSE @,
                         !.pc = IF last THEN "single_b" ELSE @]
           /\ remote' = Counted(r.calls)
    /\ UNCHANGED <<call, session, auth, pool>>

----------------------------------------------------------------------------
(* The output artifacts.                                                   *)

NonEmptyList(v) == v.t = "list" /\ Len(v.l) > 0

\* len(v) is defined
Sized(v) == v.t \in {"list", "dict", "str", "acts"}

IsNumber(v) == v.t = "int"

NA == PyStr(<<78, 47, 65>>)

\* Whether generate_compact_data raises on data: a sleep duration that is
\* no number is divided, .get is called on a training status that is no
\* dict, or len() is taken of a value without a length.
CompactRaises(data) ==
    \/ /\ NonEmptyList(data["sleep_history"])
       /\ ~IsNumber(Get(data["sleep_history"].l[1], "sleepTimeSeconds", PyInt(0)))
    \/ Truthy(data["training_status"]) /\ ~IsDict(data["training_status"])
    \/ ~Sized(data["weight_history"])
    \/ ~Sized(data["earned_badges"])

\* Whether generate_summary raises on data: the step count is formatted
\* with "{...:,}", which only a number accepts.
SummaryRaises(data) ==
    \/ Truthy(data["user_profile"]) /\ ~IsDict(data["user_profile"])
    \/ /\ NonEmptyList(data["daily_stats"])
       /\ ~IsNumber(Get(data["daily_stats"].l[1], "totalSteps", NA))
    \/ /\ NonEmptyList(data["sleep_history"])
       /\ ~IsNumber(Get(data["sleep_history"].l[1], "sleepTimeSeconds", PyInt(0)))
    \/ Truthy(data["training_status"]) /\ ~IsDict(data["training_status"])
    \/ ~Sized(data["weight_history"])

SPLIT_KEYS == {"activities", "daily_stats", "sleep_history",
               "heart_rate_history", "stress_history", "hrv_history",
               "spo2_history", "respiration_history"}

\* The files save_split_files writes: one per non-empty list, and the
\* combined profile file.
SplitFiles(data) ==
    {<<"split", k>> : k \in {x \in SPLIT_KEYS : Truthy(data[x])}}
    \cup {<<"split", "profile_and_training">>}

FULL_JSON == <<"data", "garmin_full_data">>
COMPACT_JSON == <<"data", "garmin_health">>
SUMMARY_MD == <<"data", "health_summary">>

\* json.dump(data, f, ..., default=str) into garmin_full_data.json
SaveFull ==
    /\ main.pc = "save_full"
    /\ main' = [main EXCEPT !.pc = "save_split", !.files = @ \cup {FULL_JSON}]
    /\ UNCHANGED <<call, session, auth, pool, remote>>

\* save_split_files(data)
SaveSplit ==
    /\ main.pc = "save_split"
    /\ main' = [main EXCEPT !.pc = "save_compact",
                            !.files = @ \cup SplitFiles(main.data)]
    /\ UNCHANGED <<call, session, auth, pool, remote>>

\* compact_data = generate_compact_data(data); json.dump(compact_data, ...)
SaveCompact ==
    /\ main.pc = "save_compact"
    /\ main' = IF CompactRaises(main.data)
               THEN [main EXCEPT !.pc = "raised", !.error = "compact"]
               ELSE [main EXCEPT !.pc = "summary",
                                 !.files = @ \cup {COMPACT_JSON}]
    /\ UNCHANGED <<call, session, auth, pool, remote>>

\* generate_summary(data); return data
Summary ==
    /\ main.pc = "summary"
    /\ main' = IF SummaryRaises(main.data)
               THEN [main EXCEPT !.pc = "raised", !.error = "summary"]
               ELSE [main EXCEPT !.pc = "done",
                                 !.files = @ \cup {SUMMARY_MD}]
    /\ UNCHANGED <<call, session, auth, pool, remote>>

\* The script is run a second time after a run on a restored session that
\* returned its record: the same day, the same days_history, the same
\* remote service; the wall clock stands still or has advanced.  files and
\* remote.calls count what the current run wrote and requested.
Rerun ==
    /\ main.pc = "done"
    /\ main.run = 1
    /\ auth.restore = "ok"
    /\ main' = [NewMain(main.today, main.days_history) EXCEPT
                  !.run = 2, !.previous = main.data]
    /\ auth' = NewAuth
    /\ \E tick \in {0, 1} :
          remote' = [remote EXCEPT !.calls = 0, !.clock = @ + tick]
    /\ UNCHANGED <<call, session, pool>>

----------------------------------------------------------------------------
(* Spec: whole runs of fetch_all_data, for each profile of the remote      *)
(* service, each stored session and up to MaxDays days of history.         *)

MaxDays == 2

Todays == {<<2024, 3, 1>>, <<2024, 1, 1>>}

\* The values of days_history: every one up to MaxDays on 1 March of a leap
\* year, and the one day back into the old year on New Year's Day.
Histories(today) == IF today = <<2024, 3, 1>> THEN 0..MaxDays ELSE {1}

Init ==
    /\ call = CallIdle
    /\ pool = PoolIdle
    /\ auth = NewAuth
    /\ session \in {"absent", StoredToken}
    /\ \E today \in Todays : \E days_history \in Histories(today) :
          /\ main = NewMain(today, days_history)
          /\ \E profile \in Profiles :
                remote = [mode |-> "profile", profile |-> profile,
                          bad_date |-> isoformat(MinusDays(today, 1)),
                          clock |-> 0, calls |-> 0]

Next ==
    \/ AuthStart
    \/ AuthRestore
    \/ AuthLogin
    \/ AuthDump
    \/ Prepare
    \/ SingleCallA
    \/ BeginFetch
    \/ \E i \in TaskIds : Submit(i)
    \/ \E i \in TaskIds : TaskStart(i)
    \/ \E i \in TaskIds : TaskRequest(i)
    \/ \E i \in TaskIds : TaskFinish(i)
    \/ \E i \in TaskIds : Collect(i)
    \/ FetchReturn
    \/ EndFetch
    \/ FetchActivities
    \/ SingleCallB
    \/ SaveFull
    \/ SaveSplit
    \/ SaveCompact
    \/ Summary
    \/ Rerun

Spec == Init /\ [][Next]_vars

AuthEnded == auth.pc \in {"returned", "raised"}

\* C4: once the session login has succeeded, get_client returns the client
\* and no credential login is performed, then or later in the run.
C4_ValidSessionNeverLogsIn ==
    auth.restore = "ok" =>
        /\ auth.pc = "returned"
        /\ auth.logins = 0
        /\ auth.login = "none"

\* A whole run was made on the restored session.
C4_Witness ==
    /\ auth.restore = "ok"
    /\ main.pc = "done"
    /\ auth.logins = 0

\* C5: with no session file, or with one whose login failed, get_client
\* makes exactly one credential login; when that login succeeds the client
\* is returned only with the fresh token saved in the session file; the
\* failure of the session login is never what leaves get_client.
C5_FallbackLoginPersistsToken ==
    /\ (AuthEnded /\ auth.restore # "ok") => auth.logins = 1
    /\ auth.logins <= 1
    /\ (auth.pc = "returned" /\ auth.login = "ok") =>
          (session = FreshToken /\ auth.dumps = 1)
    /\ (auth.pc = "raised") => auth.login = "failed"

\* The stored session was rejected, the credential login succeeded and its
\* token replaced the stored one.
C5_Witness ==
    /\ auth.pc = "returned"
    /\ auth.restore = "failed"
    /\ auth.login = "ok"
    /\ session = FreshToken

\* C6 as stated: a call of get_client makes exactly one login call, a
\* session login or a credential login, never both.
C6_ExactlyOneLoginCall ==
    AuthEnded => auth.restores + auth.logins = 1

\* C6 amended: a call makes at most one login call of each kind; a call
\* that returns has exactly one successful login; the credential login is
\* made exactly when there was no session file or the session login
\* failed, so that both are made exactly when the session login failed.
C6_OneSuccessfulLogin ==
    /\ auth.restores <= 1 /\ auth.logins <= 1
    /\ auth.pc = "returned" => ((auth.restore = "ok") # (auth.login = "ok"))
    /\ AuthEnded => ((auth.logins = 1) <=> (auth.restore # "ok"))
    /\ AuthEnded => ((auth.restores = 1 /\ auth.logins = 1)
                        <=> (auth.restore = "failed"))

\* Both logins were made in one call, which returned the client.
C6_Witness ==
    /\ auth.pc = "returned"
    /\ auth.restores = 1
    /\ auth.logins = 1

\* C9: once the credential login has failed, get_client and the run have
\* ended with that failure: one credential login was made, no data
\* endpoint was called, no file was written, and nothing more happens.
C9_LoginFailureAbortsRun ==
    auth.login = "failed" =>
        /\ auth.pc = "raised"
        /\ main.pc = "raised"
        /\ auth.logins = 1
        /\ remote.calls = 0
        /\ main.files = {}
        /\ \A k \in DataKeys : main.data[k] = Absent
        /\ ~ENABLED Next

\* The stored session was rejected and the credential login failed too.
C9_Witness ==
    /\ auth.login = "failed"
    /\ auth.restore = "failed"
    /\ main.pc = "raised"

REQUIRED_FILES == {FULL_JSON, <<"split", "profile_and_training">>,
                   COMPACT_JSON, SUMMARY_MD}

\* C10: after get_client has returned, the run never ends in an exception:
\* until it is done it can take a further step, and when it is done the
\* full dump, the split files, the compact summary and the Markdown digest
\* are written.
C10_RunAlwaysCompletes ==
    auth.pc = "returned" =>
        /\ main.pc # "raised"
        /\ main.pc # "done" => ENABLED Next
        /\ main.pc = "done" => REQUIRED_FILES \subseteq main.files

----------------------------------------------------------------------------
(* The per-day fetch tasks of a run.                                       *)

\* The number of days from 0001-01-01 to dt, as date.toordinal() counts.
DaysBeforeMonth(y, m) ==
    LET cum == <<0, 31, 59, 90, 120, 151, 181, 212, 243, 273, 304, 334>>
    IN  cum[m] + (IF m > 2 /\ IsLeap(y) THEN 1 ELSE 0)

toordinal(dt) ==
    LET y == dt[1] - 1
    IN  y * 365 + (y \div 4) - (y \div 100) + (y \div 400)
        + DaysBeforeMonth(dt[1], dt[2]) + dt[3]

\* A per-day category is being fetched.
PoolActive == pool.pc \in {"submit", "returned"}

\* C11: with days_history = n, every per-day category gets exactly n + 1
\* fetch tasks, the i-th for the date i - 1 days before today: today first,
\* today minus n last; for n = 0 that is the one task of today.
C11_OneTaskPerDayBackToStart ==
    PoolActive =>
        /\ DOMAIN pool.tasks = 1..(main.days_history + 1)
        /\ Len(pool.dates) = main.days_history + 1
        /\ pool.dates[1] = isoformat(main.today)
        /\ \A i \in DOMAIN pool.dates :
              /\ toordinal(fromisoformat(pool.dates[i]))
                    = toordinal(main.today) - (i - 1)
              /\ isoformat(fromisoformat(pool.dates[i])) = pool.dates[i]
        /\ main.days_history = 0 => pool.dates = <<isoformat(main.today)>>

\* With 0 days of history the last category returned after its one task,
\* that of today, had run.
C11_Witness ==
    /\ main.days_history = 0
    /\ pool.pc = "returned"
    /\ pool.data_type = "spo2"
    /\ DOMAIN pool.tasks = {1}
    /\ pool.tasks[1].st = "done"
    /\ pool.dates = <<isoformat(main.today)>>

----------------------------------------------------------------------------
(* Two runs against the same remote service.                               *)

\* The second run has assembled its record.
SecondRecordReady ==
    /\ main.run = 2
    /\ main.pc \in {"save_full", "save_split", "save_compact", "summary",
                    "done", "raised"}
    /\ main.error # "none" \/ main.pc # "raised"
    /\ auth.restore = "ok"

\* What fetch_history_parallel returns when the tasks complete in the order
\* of their dates: the reference every run is compared with.
RECURSIVE CollectInOrder(_, _, _, _)
CollectInOrder(dates, data_type, i, results) ==
    IF i > Len(dates) THEN results
    ELSE LET r == fetch_day_data(DayOuts(data_type, dates[i]), data_type)
         IN  CollectInOrder(dates, data_type, i + 1,
                            Collected(results, {}, r.value, dates[i]).results)

SequentialFetch(dates, data_type) ==
    sort_by_date_desc(CollectInOrder(dates, data_type, 1, <<>>))

\* C12 as stated: the record of the second run equals the record of the
\* first in every entry.
C12_RecordsIdentical ==
    SecondRecordReady => main.data = main.previous

\* C12 amended: in every run each per-day list is the one the tasks give
\* when they complete in the order of their dates, whatever the order in
\* which the workers did complete; the records of two runs agree in every
\* entry but "fetched_at", and the "fetched_at" entries agree exactly when
\* the wall clock read the same.
C12_RecordsIdenticalButTimestamp ==
    /\ \A c \in DOMAIN CATEGORIES :
          (main.pc # "idle" /\ main.data[CATEGORIES[c].key] # Absent) =>
             main.data[CATEGORIES[c].key] =
                PyList(SequentialFetch(main.dates, CATEGORIES[c].data_type))
    /\ SecondRecordReady =>
        /\ \A k \in DataKeys \ {"fetched_at"} : main.data[k] = main.previous[k]
        /\ (main.data["fetched_at"] = main.previous["fetched_at"])
              <=> (main.data["fetched_at"] = PyInt(0))

\* Both runs fetched three days with one day failing and returned; the
\* records differ in their timestamp only.
C12_Witness ==
    /\ main.run = 2
    /\ main.pc = "done"
    /\ auth.restore = "ok"
    /\ main.days_history = 2
    /\ remote.profile = "badday"
    /\ Len(main.data["daily_stats"].l) = 2
    /\ main.data["fetched_at"] # main.previous["fetched_at"]
    /\ main.data["daily_stats"] = main.previous["daily_stats"]

----------------------------------------------------------------------------
(* The per-day categories of a run, one after the other.                   *)

\* The tasks of the pool that are submitted and have not finished.
InFlight ==
    {i \in TaskIds : pool.tasks[i].st \in {"queued", "running", "returning"}}

\* The categories whose list is stored in the record.
Fetched == {c \in DOMAIN CATEGORIES : main.data[CATEGORIES[c].key] # Absent}

\* Only the category the controlling thread stands at has a pool, the
\* categories before it are stored and no other is.
OneCategoryAtATime ==
    /\ pool.pc # "idle" =>
          /\ main.pc = "fetch"
          /\ pool.data_type = CATEGORIES[main.step].data_type
          /\ pool.dates = main.dates
    /\ main.pc = "fetch" => Fetched = 1..(main.step - 1)
    /\ main.pc \in {"auth", "single_a"} => Fetched = {}
    /\ main.pc \in {"activities", "single_b", "save_full", "done"} =>
          Fetched = DOMAIN CATEGORIES

\* A pool is left only when drained and its list is stored then; a pool is
\* entered with no task submitted, for a category not fetched before.
DrainedBeforeNext ==
    /\ (pool.pc # "idle" /\ pool'.pc = "idle") =>
          /\ \A i \in DOMAIN pool.tasks : pool.tasks[i].st = "done"
          /\ InFlight = {}
          /\ Fetched' = Fetched \cup {main.step}
    /\ (pool.pc = "idle" /\ pool'.pc # "idle") =>
          /\ \A i \in DOMAIN pool'.tasks : pool'.tasks[i].st = "new"
          /\ main.step \notin Fetched
          /\ pool'.data_type = CATEGORIES[main.step].data_type
    /\ (pool.pc = "idle" /\ pool'.pc = "idle") => Fetched' \subseteq Fetched

\* C13: at every moment all fetch tasks in flight belong to the one
\* category the run stands at; a category's pool has fully drained before
\* the next category's first task is submitted; every per-day category is
\* fetched exactly once per run.
C13_CategoriesDoNotInterleave ==
    [](main.pc # "idle" => OneCategoryAtATime) /\ [][DrainedBeforeNext]_vars

\* Tasks of the second category are in flight, one running and one
\* finished, while the list of the first is stored.
C13_Witness ==
    /\ main.pc = "fetch"
    /\ main.step = 2
    /\ pool.pc = "submit"
    /\ pool.data_type = "sleep"
    /\ \E i, j \in TaskIds :
          pool.tasks[i].st = "running" /\ pool.tasks[j].st = "done"
    /\ main.data["daily_stats"] # Absent
    /\ main.data["sleep_history"] = Absent

----------------------------------------------------------------------------
(* SpecFetchFair: fetch_history_parallel on the date lists of a run, with  *)
(* the controlling thread and the workers running on and every remote call *)
(* returning or raising in finite time.                                    *)

FairInit ==
    /\ call = CallIdle
    /\ session = "absent"
    /\ auth = AuthIdle
    /\ main = MainIdle
    /\ \E today \in Todays, days_history \in 0..MaxDays :
          /\ \E data_type \in {"stats", "sleep"} :
                pool = NewPool(DatesOf(today, days_history), data_type)
          /\ \E profile \in {"healthy", "down", "badday"} :
                remote = [mode |-> "profile", profile |-> profile,
                          bad_date |-> isoformat(MinusDays(today, 1)),
                          clock |-> 0, calls |-> 0]

Fairness ==
    /\ WF_vars(\E i \in TaskIds : Submit(i))
    /\ WF_vars(\E i \in TaskIds : TaskStart(i))
    /\ WF_vars(\E i \in TaskIds : TaskRequest(i))
    /\ WF_vars(\E i \in TaskIds : TaskFinish(i))
    /\ WF_vars(\E i \in TaskIds : Collect(i))
    /\ WF_vars(FetchReturn)

SpecFetchFair == FairInit /\ [][FetchNext]_vars /\ Fairness

\* Every submitted task has run to its end and its future was yielded.
AllTasksCompleted ==
    /\ \A i \in DOMAIN pool.tasks : pool.tasks[i].st = "done"
    /\ pool.yielded = DOMAIN pool.tasks

\* C14: fetch_history_parallel eventually returns, and when it has sorted
\* and returned, every task it submitted has run to completion: none is
\* cancelled, skipped, pending or running, also when other tasks failed.
C14_ReturnsAfterAllTasksCompleted ==
    <>Returned_ /\ [](Returned_ => AllTasksCompleted)

\* It returned with three tasks completed, one of which had failed on every
\* attempt.
C14_Witness ==
    /\ Returned_
    /\ main = MainIdle
    /\ remote.profile = "badday"
    /\ Len(pool.dates) = 3
    /\ AllTasksCompleted
    /\ \E i \in 1..3 :
          /\ pool.tasks[i].exhausted
          /\ \A j \in 1..3 \ {i} : ~pool.tasks[j].exhausted

----------------------------------------------------------------------------
(* SpecPool: the executor of fetch_history_parallel with more dates than   *)
(* workers.  The collecting loop of the controlling thread changes the     *)
(* state of no task, so the executor is taken by itself: the submission of *)
(* tasks and their execution by the workers.  It is taken from the moment  *)
(* at which the workers of the first MAX_WORKERS - 2 tasks have got their  *)
(* answers and are about to return, while the controlling thread is still  *)
(* submitting; one of the tasks to come fails on every attempt under the   *)
(* profile "badday".                                                       *)

MaxExtra == 2

\* The state of the pool when the workers of its first n tasks have each
\* made their one request and hold what fetch_day_data makes of the answer.
Answered(dates, data_type, n) ==
    [NewPool(dates, data_type) EXCEPT
        !.tasks = [i \in DOMAIN dates |->
                     IF i <= n
                     THEN LET r == fetch_day_data(
                                     FailThen(0, GoodDay(data_type)), data_type)
                          IN  [st |-> "returning", value |-> r.value,
                               returned |-> r.value,
                               exhausted |-> r.exhausted]
                     ELSE [st |-> "new"]]]

PoolInit ==
    /\ call = CallIdle
    /\ session = "absent"
    /\ auth = AuthIdle
    /\ main = MainIdle
    /\ \E extra \in 1..MaxExtra :
          LET dates == DatesOf(<<2024, 3, 1>>, MAX_WORKERS + extra - 1)
          IN  /\ pool = Answered(dates, "stats", MAX_WORKERS - 2)
              /\ \E profile \in {"healthy", "badday"} :
                    remote = [mode |-> "profile", profile |-> profile,
                              bad_date |-> dates[MAX_WORKERS - 1],
                              clock |-> 0, calls |-> MAX_WORKERS - 2]

PoolNext ==
    \/ \E i \in TaskIds : Submit(i)
    \/ \E i \in TaskIds : TaskStart(i)
    \/ \E i \in TaskIds : TaskRequest(i)
    \/ \E i \in TaskIds : TaskFinish(i)

SpecPool == PoolInit /\ [][PoolNext]_vars

Queued == {i \in TaskIds : pool.tasks[i].st = "queued"}

\* A task begins to execute.
Starts(i) == pool.tasks[i].st = "queued" /\ pool'.tasks[i].st = "running"

\* C15: never more than MAX_WORKERS fetch tasks are executing, however
\* many dates are requested; a task begins to execute only while fewer
\* than MAX_WORKERS are executing, and until then it stays submitted and
\* waiting.
C15_AtMostMaxWorkersRunning ==
    /\ [](Cardinality(Running) <= MAX_WORKERS)
    /\ [][\A i \in TaskIds :
             /\ Starts(i) => Cardinality(Running) < MAX_WORKERS
             /\ (i \in Queued /\ Cardinality(Running) = MAX_WORKERS) =>
                   pool'.tasks[i].st = "queued"]_vars

\* All workers are busy and a submitted task waits.
C15_Witness ==
    /\ Cardinality(Running) = MAX_WORKERS
    /\ Queued # {}
    /\ Len(pool.dates) > MAX_WORKERS

----------------------------------------------------------------------------
(* The accumulator of fetch_history_parallel.                              *)

\* The entries of the accumulator that are the object task i returned.
EntriesOf(i) == {e \in DOMAIN pool.results :
                    pool.results[e] = pool.tasks[i].value}

Returning(i) == pool.tasks[i].st \in {"returning", "done"}

\* The tasks whose future was yielded with a non-empty result ...
YieldedNonEmpty == {i \in pool.yielded : Truthy(pool.tasks[i].returned)}

\* ... and with a non-empty dict.
YieldedNonEmptyDict ==
    {i \in pool.yielded : NonEmptyDict(pool.tasks[i].returned)}

\* Task j is submitted in this step, or a worker starts it, makes a
\* request for it or sets its future.
WorkerStepped(j) ==
    \/ pool'.tasks[j].st # pool.tasks[j].st
    \/ /\ pool.tasks[j].st = "running"
       /\ pool'.tasks[j].attempt # pool.tasks[j].attempt

\* A worker's step changes its task and nothing of the accumulator; the
\* accumulator changes only by the controlling thread tagging and
\* appending the result of the future it was just yielded, or sorting on
\* return; no other task's result is touched.
OnlyControllerWrites ==
    /\ pool.pc = "submit"
    /\ pool'.pc \in {"submit", "returned"}
    /\ (\E j \in DOMAIN pool.tasks : WorkerStepped(j)) =>
          pool'.results = pool.results /\ pool'.yielded = pool.yielded
    /\ pool'.results # pool.results =>
          /\ \A j \in DOMAIN pool.tasks : pool'.tasks[j].st = pool.tasks[j].st
          /\ \/ pool'.pc = "returned"
             \/ \E i \in DOMAIN pool.tasks \ pool.yielded :
                   /\ pool'.yielded = pool.yielded \cup {i}
                   /\ pool.tasks[i].st = "done"
                   /\ pool'.results =
                         Append(pool.results,
                                SetItem(pool.tasks[i].returned, "date",
                                        PyStr(pool.dates[i])))
                   /\ pool'.tasks[i].value = pool'.results[Len(pool'.results)]
                   /\ \A j \in DOMAIN pool.tasks \ {i} :
                         pool'.tasks[j] = pool.tasks[j]

\* C16 as stated: under every interleaving each non-empty (truthy) result
\* of a yielded future is in the accumulator exactly once, none is lost or
\* duplicated, and workers never write the accumulator.
C16_EveryNonEmptyResultOnce ==
    /\ [](PoolActive =>
            /\ \A i \in YieldedNonEmpty : Cardinality(EntriesOf(i)) = 1
            /\ Len(pool.results) = Cardinality(YieldedNonEmpty))
    /\ [][OnlyControllerWrites]_vars

\* C16 amended: under every interleaving each non-empty dict result of a
\* yielded future is in the accumulator exactly once, holding what the
\* task returned and its date, none is lost or duplicated and the
\* accumulator holds nothing else; workers never write the accumulator.
C16_EveryNonEmptyDictOnce ==
    /\ [](PoolActive =>
            /\ \A i \in YieldedNonEmptyDict :
                  /\ Cardinality(EntriesOf(i)) = 1
                  /\ \A e \in EntriesOf(i) :
                        pool.results[e] = SetItem(pool.tasks[i].returned, "date",
                                                  PyStr(pool.dates[i]))
            /\ \A i \in DOMAIN pool.tasks \ YieldedNonEmptyDict :
                  Returning(i) => EntriesOf(i) = {}
            /\ Len(pool.results) = Cardinality(YieldedNonEmptyDict))
    /\ [][OnlyControllerWrites]_vars

\* Two results are in the accumulator, appended oldest date first, while
\* a third task is still running.
C16_Witness ==
    /\ pool.pc = "submit"
    /\ main = MainIdle
    /\ Len(pool.dates) = 3
    /\ Len(pool.results) = 2
    /\ StrLess(DateKey(pool.results[1]), DateKey(pool.results[2]))
    /\ \E i \in TaskIds : pool.tasks[i].st = "running"

----------------------------------------------------------------------------
(* The session file.                                                       *)

\* The session file is written in this step.
SessionWritten == session' # session

\* C17: the session file is written only by the step that directly follows
\* a successful credential login, and then with the fresh token; a call
\* that succeeded by session login leaves the stored token as it was, and
\* so does a call whose credential login failed, also when the stored
\* token had been rejected.
C17_TokenWrittenOnlyAfterFreshLogin ==
    /\ [][SessionWritten =>
             /\ auth.pc = "dump" /\ auth.login = "ok"
             /\ auth'.pc = "returned"
             /\ session' = FreshToken]_vars
    /\ [](auth.restore = "ok" => session = StoredToken)
    /\ [](auth.login = "failed" =>
             session = IF auth.restore = "failed" THEN StoredToken
                       ELSE "absent")

\* The stored token was rejected, the credential login failed, and the
\* rejected token is still in the session file.
C17_Witness ==
    /\ auth.pc = "raised"
    /\ auth.restore = "failed"
    /\ auth.login = "failed"
    /\ session = StoredToken

----------------------------------------------------------------------------
(* The pagination of the activities.                                       *)

\* The batches collected so far, in the order they were added.
Batches == main.all_activities.segs

\* The number of activities in the batches before the b-th.
CollectedBefore(b) == SegsSize(SubSeq(Batches, 1, b - 1))

\* The list is the batches in request order, each requested at the offset
\* that was the number collected before it, all but the last full; the next
\* request will be made at the number collected so far.
PaginationInv ==
    /\ main.offset = Size(main.all_activities)
    /\ \A b \in DOMAIN Batches :
          /\ Batches[b].from = CollectedBefore(b)
          /\ Batches[b].n > 0
          /\ b < Len(Batches) => Batches[b].n = BATCH_SIZE
    /\ main.pc = "activities" =>
          /\ main.data["activities"] = Absent
          /\ \A b \in DOMAIN Batches : Batches[b].n = BATCH_SIZE
    /\ main.data["activities"] # Absent =>
          main.data["activities"] = main.all_activities

\* One request of the loop: the batch it returned is appended; a further
\* request follows exactly when that batch was full, otherwise the loop has
\* ended and the list is stored.
PaginationStep ==
    main.pc = "activities" =>
        /\ remote'.calls - remote.calls \in 1..SAFE_CALL_ATTEMPTS
        /\ \/ /\ Batches' = Batches
              /\ main'.pc = "single_b"
           \/ /\ Len(Batches') = Len(Batches) + 1
              /\ SubSeq(Batches', 1, Len(Batches)) = Batches
              /\ Batches'[Len(Batches')].from = main.offset
              /\ main'.pc = IF Batches'[Len(Batches')].n < BATCH_SIZE
                            THEN "single_b" ELSE "activities"
        /\ main'.pc = "single_b" =>
              main'.data["activities"] = main'.all_activities

\* C18: every request of the activities loop is made at the offset that is
\* the number of activities collected so far; the collected list is the
\* returned batches in request order; the loop ends at the first batch
\* that is empty, failed or shorter than BATCH_SIZE and goes on only after
\* a full batch.
C18_ActivitiesPagination ==
    /\ [](main.pc \notin {"idle", "auth"} => PaginationInv)
    /\ [][PaginationStep]_vars

\* Two full batches were collected and a third, empty one ended the loop.
C18_Witness ==
    /\ main.pc = "single_b"
    /\ Len(Batches) = 2
    /\ Batches[2] = [from |-> BATCH_SIZE, n |-> BATCH_SIZE]
    /\ main.offset = 2 * BATCH_SIZE
    /\ main.data["activities"] = main.all_activities

----------------------------------------------------------------------------
(* fetch_garmin_data.py: the single-day script.  fetch_and_save calls five *)
(* endpoints once each, every one inside its own try/except, and writes a  *)
(* JSON file and a Markdown file.                                          *)

\* The keys the script reads in the responses.
DayKeys == {"totalSteps", "totalDistanceMeters", "dailySleepDTO",
            "sleepTimeSeconds", "hrvSummary", "weeklyAvg", "weight", "bmi",
            "activityName", "duration"}

NoDayKeys == [k \in DayKeys |-> Absent]

\* A response dict with the given entries.
DayDict(entries) ==
    PyDict([k \in DayKeys |-> IF k \in DOMAIN entries THEN entries[k]
                              ELSE Absent])

\* A float, as the quotient num / den.
PyFloat(num, den) == [t |-> "float", num |-> num, den |-> den]

\* The number of bits of i > 0 in binary, 0 for 0.
RECURSIVE BitLength(_)
BitLength(i) == IF i = 0 THEN 0 ELSE 1 + BitLength(i \div 2)

\* The quotient of two ints is the double nearest to it: 53 significant
\* bits, the rest rounded to nearest, at a half to the even mantissa. The
\* bits come out of the long division one at a time; r / d is the part of
\* the quotient below the bits written so far, left the number of mantissa
\* bits still to write, last the bit written last. The result is the sign of
\* double - exact quotient.
RECURSIVE DoubleTail(_, _, _, _)
DoubleTail(r, d, left, last) ==
    IF left = 0
    THEN IF r = 0 THEN 0
         ELSE IF 2 * r > d \/ (2 * r = d /\ last = 1) THEN 1 ELSE -1
    ELSE DoubleTail((2 * r) % d, d, left - 1, (2 * r) \div d)

\* A quotient r / d below one: the zero bits in front of the first one bit
\* are no part of the mantissa.
RECURSIVE DoubleLead(_, _)
DoubleLead(r, d) ==
    IF (2 * r) \div d = 1 THEN DoubleTail((2 * r) % d, d, 52, 1)
    ELSE DoubleLead(2 * r, d)

\* n / d for ints n >= 0, d > 0: whether the double lies above (1), on (0)
\* or below (-1) the exact quotient.
DoubleError(n, d) ==
    IF n % d = 0 THEN 0
    ELSE IF n \div d > 0
         THEN DoubleTail(n % d, d, 53 - BitLength(n \div d), (n \div d) % 2)
         ELSE DoubleLead(n % d, d)

\* round(n / d, digits) with scale = 10 ^ digits, in units of 1 / scale.
\* The division comes first and gives a double; round() then takes the
\* decimal nearest to that double. Where the exact quotient lies half way
\* between two decimals the double decides: above the half rounds up, below
\* it rounds down, and only a half the double holds exactly goes to the even
\* decimal. A negative quotient mirrors the positive one, and one that
\* rounds to zero keeps its sign (-0.0, written here as 0 / -scale).
RoundedQuotient(n, d, scale) ==
    LET a == IF n < 0 THEN -n ELSE n
        q == (a * scale) \div d
        rem == (a * scale) % d
        e == DoubleError(a, d)
        up == \/ 2 * rem > d
              \/ 2 * rem = d /\ (e > 0 \/ (e = 0 /\ q % 2 = 1))
        m == IF up THEN q + 1 ELSE q
    IN  IF n >= 0 THEN PyFloat(m, scale)
        ELSE IF m = 0 THEN PyFloat(0, -scale) ELSE PyFloat(-m, scale)

\* str(e) of the exception a section caught
PyErr(kind) == [t |-> "errstr", kind |-> kind]

\* What a section leaves in data: the value under the section's own key
\* (Absent when nothing is stored) and the error string (Absent when the
\* section did not fail).
SectionOk(value) == [value |-> value, error |-> Absent]
SectionFailed(value, kind) == [value |-> value, error |-> PyErr(kind)]

\* x.get(...) needs a dict; anything else the service may answer has no
\* attribute "get".
HasGet(v) == IsDict(v)

\* Lines 54-71.
StatsSection(out) ==
    IF out = Raise THEN SectionFailed(Absent, "remote")
    ELSE IF ~HasGet(out) THEN SectionFailed(Absent, "AttributeError")
    ELSE LET dist == Get(out, "totalDistanceMeters", PyInt(0))
         IN  IF ~IsNumber(dist) THEN SectionFailed(Absent, "TypeError")
             ELSE SectionOk(PyDict(
                    [k \in {"steps", "distance_km"} |->
                       IF k = "steps" THEN Get(out, "totalSteps", PyNone)
                       ELSE RoundedQuotient(dist.n, 1000, 100)]))

\* Lines 74-87.
SleepSection(out) ==
    IF out = Raise THEN SectionFailed(Absent, "remote")
    ELSE IF ~Truthy(out) THEN SectionOk(Absent)
    ELSE IF ~HasGet(out) THEN SectionFailed(Absent, "AttributeError")
    ELSE LET s == Get(out, "dailySleepDTO", PyNone)
         IN  IF ~Truthy(s) THEN SectionOk(Absent)
             ELSE IF ~HasGet(s) THEN SectionFailed(Absent, "AttributeError")
             ELSE LET secs == Get(s, "sleepTimeSeconds", PyInt(0))
                  IN  IF ~IsNumber(secs)
                      THEN SectionFailed(Absent, "TypeError")
                      ELSE SectionOk(PyDict(
                             [k \in {"duration_hours"} |->
                                RoundedQuotient(secs.n, 3600, 10)]))

\* Lines 90-100.
HrvSection(out) ==
    IF out = Raise THEN SectionFailed(Absent, "remote")
    ELSE IF ~Truthy(out) THEN SectionOk(Absent)
    ELSE IF ~HasGet(out) THEN SectionFailed(Absent, "AttributeError")
    ELSE LET h == Get(out, "hrvSummary", PyNone)
         IN  IF ~Truthy(h) THEN SectionOk(Absent)
             ELSE IF ~HasGet(h) THEN SectionFailed(Absent, "AttributeError")
             ELSE SectionOk(PyDict(
                    [k \in {"weekly_average"} |-> Get(h, "weeklyAvg", PyNone)]))

\* Lines 103-113.
BodySection(out) ==
    IF out = Raise THEN SectionFailed(Absent, "remote")
    ELSE IF ~Truthy(out) THEN SectionOk(Absent)
    ELSE IF ~HasGet(out) THEN SectionFailed(Absent, "AttributeError")
    ELSE LET w == Get(out, "weight", PyNone)
         IN  IF ~Truthy(w) THEN SectionOk(Absent)
             ELSE IF ~IsNumber(w) THEN SectionFailed(Absent, "TypeError")
             ELSE SectionOk(PyDict(
                    [k \in {"weight_kg", "bmi"} |->
                       IF k = "weight_kg" THEN PyFloat(w.n, 1000)
                       ELSE Get(out, "bmi", PyNone)]))

\* The loop "for act in activities[:5]": the summaries appended before the
\* first activity that cannot be summarised, and the failure if there is one.
RECURSIVE Summarise(_, _, _)
Summarise(acts, i, done) ==
    IF i > Len(acts) \/ i > 5 THEN SectionOk(PyList(done))
    ELSE LET act == acts[i]
         IN  IF ~HasGet(act) THEN SectionFailed(PyList(done), "AttributeError")
             ELSE LET dur == Get(act, "duration", PyInt(0))
                  IN  IF ~IsNumber(dur)
                      THEN SectionFailed(PyList(done), "TypeError")
                      ELSE Summarise(acts, i + 1,
                             Append(done, PyDict(
                               [k \in {"name", "duration_min"} |->
                                  IF k = "name"
                                  THEN Get(act, "activityName", PyNone)
                                  ELSE RoundedQuotient(dur.n, 60, 10)])))

\* Lines 116-131: the empty list is stored before the response is sliced.
\* A str can be sliced as a list can, and its items are its characters,
\* which have no .get; None, an int and a dict cannot be sliced.
ActivitiesSection(out) ==
    IF out = Raise THEN SectionFailed(Absent, "remote")
    ELSE IF out.t = "list" THEN Summarise(out.l, 1, <<>>)
    ELSE IF out.t = "str"
         THEN IF Len(out.s) = 0 THEN SectionOk(EmptyList)
              ELSE SectionFailed(EmptyList, "AttributeError")
    ELSE SectionFailed(EmptyList, "TypeError")

\* The sections in the order of the code: the key of the value, the key of
\* the error.
SECTIONS ==
    << [name |-> "daily_stats", key |-> "daily_stats",
        error_key |-> "daily_stats_error"],
       [name |-> "sleep", key |-> "sleep", error_key |-> "sleep_error"],
       [name |-> "hrv", key |-> "hrv", error_key |-> "hrv_error"],
       [name |-> "body", key |-> "body", error_key |-> "body_error"],
       [name |-> "activities", key |-> "recent_activities",
        error_key |-> "activities_error"] >>

SectionResult(name, out) ==
    CASE name = "daily_stats" -> StatsSection(out)
      [] name = "sleep" -> SleepSection(out)
      [] name = "hrv" -> HrvSection(out)
      [] name = "body" -> BodySection(out)
      [] name = "activities" -> ActivitiesSection(out)

\* What the endpoint of a section may answer to its successive invocations.
SampleActivity ==
    DayDict([k \in {"activityName", "duration"} |->
               IF k = "activityName" THEN PyStr(<<82, 117, 110>>)
               ELSE PyInt(1830)])

\* An activity whose name ends in half of a surrogate pair, as the JSON
\* escape "\\ud83d" of a response decodes.
BrokenNameActivity ==
    DayDict([k \in {"activityName", "duration"} |->
               IF k = "activityName" THEN PyStr(<<82, 117, 110, 32, 55357>>)
               ELSE PyInt(60)])

DayAnswers(name) ==
    CASE name = "daily_stats" ->
           {PyNone, DayDict(<<>>),
            DayDict([k \in {"totalSteps", "totalDistanceMeters"} |->
                       IF k = "totalSteps" THEN PyInt(5000) ELSE PyInt(1245)]),
            DayDict([k \in {"totalDistanceMeters"} |-> PyNone])}
      [] name = "sleep" ->
           {PyNone, SampleList,
            DayDict([k \in {"dailySleepDTO"} |->
                       DayDict([j \in {"sleepTimeSeconds"} |-> PyInt(27180)])]),
            DayDict([k \in {"dailySleepDTO"} |->
                       DayDict([j \in {"sleepTimeSeconds"} |-> PyNone])])}
      [] name = "hrv" ->
           {PyNone,
            DayDict([k \in {"hrvSummary"} |->
                       DayDict([j \in {"weeklyAvg"} |-> PyInt(40)])]),
            DayDict([k \in {"hrvSummary"} |-> SampleList])}
      [] name = "body" ->
           {DayDict(<<>>),
            DayDict([k \in {"weight", "bmi"} |->
                       IF k = "weight" THEN PyInt(70500) ELSE PyInt(22)]),
            DayDict([k \in {"weight"} |-> PyStr(<<55, 48>>)])}
      [] name = "activities" ->
           {PyNone, EmptyList, PyList(<<SampleActivity>>),
            PyList(<<SampleActivity, PyInt(1)>>),
            PyList(<<BrokenNameActivity>>),
            PyStr(<<>>), PyStr(<<82, 117, 110>>)}

DayOutcomes(name) ==
    {FailThen(0, v) : v \in DayAnswers(name)}
    \cup {FailThen(1, CHOOSE v \in DayAnswers(name) : Truthy(v)),
          FailThen(SAFE_CALL_ATTEMPTS, PyNone)}

\* client.get_...(...): one invocation, whose failure reaches the except
\* clause of the section.
DayCall(outs) == [out |-> outs[1], calls |-> 1]

DayDataKeys ==
    {"date", "updated_at"}
    \cup {SECTIONS[i].key : i \in DOMAIN SECTIONS}
    \cup {SECTIONS[i].error_key : i \in DOMAIN SECTIONS}

DAY_JSON == <<"data", "garmin_health">>
DAY_MD == <<"data", "health_summary">>

\* The controlling thread of fetch_and_save.  invoked lists the sections in
\* the order their endpoints were invoked, one entry per invocation;
\* answers keeps what each section's endpoint did.
NewDay(today) ==
    [pc |-> "day_auth", step |-> 0, today |-> today,
     data |-> [k \in DayDataKeys |-> Absent], files |-> {},
     invoked |-> <<>>, answers |-> <<>>, markdown |-> <<>>]

\* Lines 45-51.
DayPrepare ==
    /\ main.pc = "day_auth"
    /\ auth.pc = "returned"
    /\ main' = [main EXCEPT !.pc = "section", !.step = 1,
                            !.data["date"] = PyStr(isoformat(main.today)),
                            !.data["updated_at"] = PyInt(remote.clock)]
    /\ UNCHANGED <<call, session, auth, pool, remote>>

\* One try/except block of lines 53-131.
DaySection ==
    /\ main.pc = "section"
    /\ LET sec == SECTIONS[main.step]
       IN  \E outs \in DayOutcomes(sec.name) :
              LET c == DayCall(outs)
                  r == SectionResult(sec.name, c.out)
              IN  /\ main' = [main EXCEPT
                       !.data = [@ EXCEPT ![sec.key] = r.value,
                                          ![sec.error_key] = r.error],
                       !.invoked = @ \o [i \in 1..c.calls |-> sec.name],
                       !.answers = Append(@, outs),
                       !.step = IF main.step = Len(SECTIONS) THEN @ ELSE @ + 1,
                       !.pc = IF main.step = Len(SECTIONS)
                              THEN "save_json" ELSE @]
                  /\ remote' = [remote EXCEPT !.calls = @ + c.calls]
    /\ UNCHANGED <<call, session, auth, pool>>

\* Whether the text of v can be written to a file opened with
\* encoding="utf-8": no string holds a surrogate code point.
RECURSIVE Utf8Encodable(_)
Utf8Encodable(v) ==
    CASE v.t = "str" -> \A i \in DOMAIN v.s : v.s[i] \notin 55296..57343
      [] v.t = "list" -> \A i \in DOMAIN v.l : Utf8Encodable(v.l[i])
      [] v.t = "dict" -> \A k \in DOMAIN v.d : Utf8Encodable(v.d[k])
      [] OTHER -> TRUE

\* The file that is left when the write of garmin_health.json fails.
DAY_JSON_PARTIAL == <<"data", "garmin_health", "truncated">>

\* Lines 134-136: json.dump(data, f, indent=2, ensure_ascii=False) into a
\* file opened with encoding="utf-8"; a string that cannot be encoded
\* raises UnicodeEncodeError out of fetch_and_save.
DaySaveJson ==
    /\ main.pc = "save_json"
    /\ main' = IF \A k \in DayDataKeys : Utf8Encodable(main.data[k])
               THEN [main EXCEPT !.pc = "markdown",
                                 !.files = @ \cup {DAY_JSON}]
               ELSE [main EXCEPT !.pc = "raised",
                                 !.files = @ \cup {DAY_JSON_PARTIAL}]
    /\ UNCHANGED <<call, session, auth, pool, remote>>

\* generate_markdown: the headings of the sections that are rendered.
generate_markdown(data) ==
    SelectSeq(<<"daily_stats", "sleep", "hrv", "body", "recent_activities">>,
              LAMBDA k : /\ data[k] # Absent
                         /\ k = "recent_activities" => Truthy(data[k]))

\* Lines 139-145.
DayMarkdown ==
    /\ main.pc = "markdown"
    /\ main' = [main EXCEPT !.pc = "done", !.files = @ \cup {DAY_MD},
                            !.markdown = generate_markdown(main.data)]
    /\ UNCHANGED <<call, session, auth, pool, remote>>

DayInit ==
    /\ call = CallIdle
    /\ pool = PoolIdle
    /\ auth = NewAuth
    /\ session \in {"absent", StoredToken}
    /\ \E today \in Todays : main = NewDay(today)
    /\ remote = [mode |-> "day", clock |-> 0, calls |-> 0]

DayNext ==
    \/ AuthStart
    \/ AuthRestore
    \/ AuthLogin
    \/ AuthDump
    \/ DayPrepare
    \/ DaySection
    \/ DaySaveJson
    \/ DayMarkdown

SpecDay == DayInit /\ [][DayNext]_vars

\* The sections whose try/except block the thread has left.
Attempted ==
    IF main.pc = "section" THEN main.step - 1
    ELSE IF main.pc = "day_auth" THEN 0 ELSE Len(SECTIONS)

\* Every section left so far was invoked once, in the order of the code; a
\* section whose endpoint failed has its own error key set; the sections
\* not yet reached have left nothing.
SectionsIsolated ==
    /\ main.invoked = [i \in 1..Attempted |-> SECTIONS[i].name]
    /\ Len(main.answers) = Attempted
    /\ \A i \in 1..Attempted :
          /\ main.answers[i][1] = Raise =>
                main.data[SECTIONS[i].error_key] = PyErr("remote")
          /\ main.data[SECTIONS[i].error_key] # Absent =>
                /\ main.data[SECTIONS[i].error_key].t = "errstr"
                /\ SECTIONS[i].name # "activities" =>
                      main.data[SECTIONS[i].key] = Absent
    /\ \A i \in (Attempted + 1)..Len(SECTIONS) :
          /\ main.data[SECTIONS[i].key] = Absent
          /\ main.data[SECTIONS[i].error_key] = Absent

\* C19: after get_client has returned, the five sections are each invoked
\* exactly once, in order and without retry, whatever failed before; a
\* failure is recorded under the section's own error key and does not
\* leave fetch_and_save, which always goes on to write the JSON file and
\* the Markdown file.
C19_SectionsIsolatedFilesWritten ==
    (main.pc # "idle" /\ auth.pc = "returned") =>
        /\ SectionsIsolated
        /\ main.pc # "raised"
        /\ main.pc # "done" => ENABLED DayNext
        /\ main.pc = "done" => {DAY_JSON, DAY_MD} \subseteq main.files

====
